---------------------------- MODULE Spec2Model ----------------------------
(***************************************************************************)
(* YandexMusicController (split media/volume variant, src/src/index.ts     *)
(* lines 87-594): the supervisor of one worker process.                    *)
(*                                                                         *)
(* Node runs every handler to completion on one event loop, so each action *)
(* below is one handler: a caller's call up to its first suspension point, *)
(* a timer callback, a child-process event, or a line of a stream reader.  *)
(* Handlers are written as functions from a record of the whole state to   *)
(* the record after the handler, so that the helpers of the class          *)
(* (setState, cleanup, isRunning, sendCommand) compose as in the source.   *)
(***************************************************************************)
EXTENDS Integers, Sequences, FiniteSets, TLC

\* ------------------------------------------------------------------ bounds
\* number of start() invocations that get past the 'already running' guard
MaxStarts == 2
\* payloads of inbound messages: 0 is null, 1..MaxPayload are records
MaxPayload == 1

Inv == 1..MaxStarts
Payloads == 0..MaxPayload
\* exit codes of the worker: 0, a non-zero code, null (killed by a signal)
ExitCodes == {"0", "1", "null"}
\* what awaits a start() once it is past the guard: the executable is not
\* found, spawn() throws, spawn() returns a handle whose launch failed (the
\* 'error' event), or the worker runs
Outcomes == {"notfound", "throws", "spawnError", "ok"}
\* lines of the worker's output stream, as JSON.parse and msg.type see them
Lines == ({"media", "volume"} \X Payloads) \cup {<<"ping", 0>>, <<"malformed", 0>>}
\* lines of the worker's error stream
ErrLines == {"fatal"}
\* the argument the caller gives to setVolume: one above the range
VolumeArgs == {150}
\* the options restartDelay and maxRestartDelay given to the constructor: the
\* default delay, and a cap that attempt 0 stays under and attempt 1 exceeds
RestartDelays == {1000}
MaxRestartDelays == {1500}
\* the values of Math.random() * 1000 in getRestartDelay: the ends of [0, 1000)
JitterCeiling == 1000
Jitters == {0, JitterCeiling - 1}

VARIABLES
  process,            \* this.process: 0 is undefined, i the handle spawned by start() number i
  restartTimer,       \* this.restartTimer: 0 is undefined, t a timer handle
  isStarted,          \* this.isStarted
  connectionState,    \* this.connectionState
  restartAttempt,     \* this.restartAttempt
  readlineInterfaces, \* this.readlineInterfaces: the processes whose two readers are in the list
  lastMediaData,      \* this.lastMediaData
  lastVolumeData,     \* this.lastVolumeData
  autoRestart,        \* this.options.autoRestart
  restartDelay,       \* this.options.restartDelay
  maxRestartDelay,    \* this.options.maxRestartDelay
  procStatus,         \* per handle: "none", "running", "failed" (the launch failed), "exited"
  killed,             \* per handle: process.killed
  rlOpen,             \* per handle: its readers are not closed
  stdinWrites,        \* per handle: lines written to its input stream
  nextInv,            \* number of the next start() invocation
  phase,              \* per start(): "none", "validating", "pending" (promise created), "done"
  origin,             \* per start(): "caller" or "timer" (called by the restart timer, with .catch)
  resolved,           \* per start(): the closure variable resolved
  result,             \* per start(): state of the returned promise: "none", "fulfilled", "rejected"
  settleCalls,        \* per start(): number of resolve()/reject()/throw that reached the promise
  connTimeout,        \* per start(): connectionTimeout is armed
  pendingRestart,     \* restart timers armed in the event loop
  nextTimer,          \* handle of the next restart timer
  stopPending,        \* a stop() promise is not yet fulfilled
  stopTimeout,        \* the grace timer of stop() is armed
  stopListeners,      \* handles that carry the 'exit' listener of stop()
  cmdPhase,           \* the public operation in flight: "idle", "writing" (write not yet acknowledged), "delay" (retry timer armed)
  cmdAttempt,         \* its loop variable attempt
  trace               \* the last handler: its input, then what it published (events, settlements, spawns, writes)

vars == <<process, restartTimer, isStarted, connectionState, restartAttempt,
          readlineInterfaces, lastMediaData, lastVolumeData, autoRestart,
          restartDelay, maxRestartDelay,
          procStatus, killed, rlOpen, stdinWrites, nextInv, phase, origin,
          resolved, result, settleCalls, connTimeout,
          pendingRestart, nextTimer, stopPending, stopTimeout, stopListeners,
          cmdPhase, cmdAttempt, trace>>

\* the state as one record
Cur ==
  [process |-> process, restartTimer |-> restartTimer, isStarted |-> isStarted,
   connectionState |-> connectionState, restartAttempt |-> restartAttempt,
   readlineInterfaces |-> readlineInterfaces, lastMediaData |-> lastMediaData,
   lastVolumeData |-> lastVolumeData, autoRestart |-> autoRestart,
   restartDelay |-> restartDelay, maxRestartDelay |-> maxRestartDelay,
   random |-> 0,
   procStatus |-> procStatus, killed |-> killed, rlOpen |-> rlOpen,
   stdinWrites |-> stdinWrites, nextInv |-> nextInv, phase |-> phase,
   origin |-> origin, resolved |-> resolved, result |-> result,
   settleCalls |-> settleCalls, connTimeout |-> connTimeout,
   pendingRestart |-> pendingRestart,
   nextTimer |-> nextTimer, stopPending |-> stopPending,
   stopTimeout |-> stopTimeout, stopListeners |-> stopListeners,
   cmdPhase |-> cmdPhase, cmdAttempt |-> cmdAttempt, trace |-> trace]

Commit(s) ==
  /\ process' = s.process
  /\ restartTimer' = s.restartTimer
  /\ isStarted' = s.isStarted
  /\ connectionState' = s.connectionState
  /\ restartAttempt' = s.restartAttempt
  /\ readlineInterfaces' = s.readlineInterfaces
  /\ lastMediaData' = s.lastMediaData
  /\ lastVolumeData' = s.lastVolumeData
  /\ autoRestart' = s.autoRestart
  /\ restartDelay' = s.restartDelay
  /\ maxRestartDelay' = s.maxRestartDelay
  /\ procStatus' = s.procStatus
  /\ killed' = s.killed
  /\ rlOpen' = s.rlOpen
  /\ stdinWrites' = s.stdinWrites
  /\ nextInv' = s.nextInv
  /\ phase' = s.phase
  /\ origin' = s.origin
  /\ resolved' = s.resolved
  /\ result' = s.result
  /\ settleCalls' = s.settleCalls
  /\ connTimeout' = s.connTimeout
  /\ pendingRestart' = s.pendingRestart
  /\ nextTimer' = s.nextTimer
  /\ stopPending' = s.stopPending
  /\ stopTimeout' = s.stopTimeout
  /\ stopListeners' = s.stopListeners
  /\ cmdPhase' = s.cmdPhase
  /\ cmdAttempt' = s.cmdAttempt
  /\ trace' = s.trace

\* ----------------------------------------------------------------- helpers
\* Math.pow(2, n) and Math.min
Pow2(n) == 2 ^ n
Min(a, b) == IF a <= b THEN a ELSE b
Max(a, b) == IF a >= b THEN a ELSE b

clamp(value, min, max) == Min(Max(value, min), max)

\* EventEmitter.emit and the other things a handler makes observable
emit(s, ev) == [s EXCEPT !.trace = Append(@, ev)]

\* setState without the test for a change: publishes on every call
setState_always(s, state) ==
  emit([s EXCEPT !.connectionState = state], <<"state", state>>)

setState(s, state) ==
  IF s.connectionState # state
  THEN emit([s EXCEPT !.connectionState = state], <<"state", state>>)
  ELSE s

isRunning(s) ==
  s.isStarted /\ s.process # 0 /\ ~s.killed[s.process]

\* cleanup that also drops the cached snapshots
cleanup_dropsCache(s) ==
  [s EXCEPT !.rlOpen = [p \in Inv |-> IF p \in s.readlineInterfaces THEN FALSE ELSE @[p]],
            !.readlineInterfaces = {},
            !.lastMediaData = 0,
            !.lastVolumeData = 0]

\* the closure cleanup of start(): closes every reader in the shared list
cleanup(s) ==
  [s EXCEPT !.rlOpen = [p \in Inv |-> IF p \in s.readlineInterfaces THEN FALSE ELSE @[p]],
            !.readlineInterfaces = {}]

\* this.process?.kill(): the signal is sent only to a handle that still runs
kill(s) ==
  IF s.process # 0 /\ s.procStatus[s.process] = "running"
  THEN [s EXCEPT !.killed[s.process] = TRUE]
  ELSE s

\* the .catch of the start() issued by the restart timer
restartCatch(s) ==
  emit(setState(s, "error"), <<"error", "Auto-restart failed">>)

\* reject(err) or throw of start() number i; a promise settles once, and the
\* caller's continuation (for the restart timer, its .catch) runs on that
rejectStart(s, i, why) ==
  LET s1 == emit([s EXCEPT !.settleCalls[i] = @ + 1], <<"reject", i, why>>)
  IN IF s.result[i] # "none" THEN s1
     ELSE LET s2 == [s1 EXCEPT !.result[i] = "rejected"]
          IN IF s.origin[i] = "timer" THEN restartCatch(s2) ELSE s2

resolveStart(s, i) ==
  LET s1 == emit([s EXCEPT !.settleCalls[i] = @ + 1], <<"resolve", i>>)
  IN IF s.result[i] # "none" THEN s1 ELSE [s1 EXCEPT !.result[i] = "fulfilled"]

\* ------------------------------------------------------------------- start
\* start() up to the await of validateExecutablePath()
startCall(s, org) ==
  IF isRunning(s)
  THEN LET s1 == emit(s, <<"reject", 0, "already running">>)
       IN IF org = "timer" THEN restartCatch(s1) ELSE s1
  ELSE LET i == s.nextInv
       IN [setState(s, "connecting") EXCEPT !.nextInv = i + 1,
                                            !.phase[i] = "validating",
                                            !.origin[i] = org]

\* the 'error' listener that start() number i put on its handle
onProcessError(s, i) ==
  LET s1 == emit(setState(s, "error"), <<"error", "spawn">>)
  IN IF ~s1.resolved[i]
     THEN rejectStart([s1 EXCEPT !.resolved[i] = TRUE], i, "spawn")
     ELSE s1

\* the promise executor of start() number i when spawn() returns a handle
spawned(s, i, status) ==
  emit([s EXCEPT !.phase[i] = "pending",
                 !.process = i,
                 !.procStatus[i] = status,
                 !.readlineInterfaces = @ \cup {i},
                 !.rlOpen[i] = TRUE,
                 !.connTimeout[i] = TRUE],
       <<"spawn", i>>)

\* start() from the return of validateExecutablePath() to the end of the
\* promise executor.  A launch that fails after spawn() returned (ENOENT,
\* EACCES) is reported by the 'error' event, which child_process queues with
\* process.nextTick: it is delivered when the executor returns, before any
\* other handler, and no 'exit' event follows it
\* startValidated whose catch of the validation error rethrows without
\* setState('error')
startValidated_noErrorState(s, i, outcome) ==
  IF outcome = "notfound"
  THEN rejectStart([s EXCEPT !.phase[i] = "done"], i, "not found")
  ELSE IF outcome = "throws"
  THEN LET s1 == [setState(s, "error") EXCEPT !.phase[i] = "pending"]
       IN IF ~s1.resolved[i]
          THEN rejectStart([s1 EXCEPT !.resolved[i] = TRUE], i, "spawn")
          ELSE s1
  ELSE IF outcome = "spawnError"
  THEN onProcessError(spawned(s, i, "failed"), i)
  ELSE spawned(s, i, "running")

startValidated(s, i, outcome) ==
  IF outcome = "notfound"
  THEN rejectStart([setState(s, "error") EXCEPT !.phase[i] = "done"], i, "not found")
  ELSE IF outcome = "throws"
  THEN LET s1 == [setState(s, "error") EXCEPT !.phase[i] = "pending"]
       IN IF ~s1.resolved[i]
          THEN rejectStart([s1 EXCEPT !.resolved[i] = TRUE], i, "spawn")
          ELSE s1
  ELSE IF outcome = "spawnError"
  THEN onProcessError(spawned(s, i, "failed"), i)
  ELSE spawned(s, i, "running")

\* ------------------------------------------------- child process handlers
\* the restart is scheduled: setTimeout returns a fresh handle
\* getRestartDelay without the cap
getRestartDelay_noCap(s) ==
  s.restartDelay * Pow2(s.restartAttempt) + s.random

\* getRestartDelay(); s.random is what Math.random() * 1000 returns
getRestartDelay(s) ==
  Min(s.restartDelay * Pow2(s.restartAttempt), s.maxRestartDelay) + s.random

\* scheduleRestart without this.restartAttempt++
scheduleRestart_noCount(s) ==
  LET delay == getRestartDelay(s)
      s2 == emit(setState(s, "reconnecting"), <<"error", "Controller exited">>)
  IN emit([s2 EXCEPT !.restartTimer = s.nextTimer,
                     !.pendingRestart = @ \cup {s.nextTimer},
                     !.nextTimer = @ + 1],
          <<"setTimeout", delay>>)

\* the restart branch of the exit handler
scheduleRestart(s) ==
  LET delay == getRestartDelay(s)
      s1 == [s EXCEPT !.restartAttempt = @ + 1]
      s2 == emit(setState(s1, "reconnecting"), <<"error", "Controller exited">>)
  IN emit([s2 EXCEPT !.restartTimer = s.nextTimer,
                     !.pendingRestart = @ \cup {s.nextTimer},
                     !.nextTimer = @ + 1],
          <<"setTimeout", delay>>)

\* onStartExit without the test of this.restartTimer
onStartExit_noTimerGuard(s, code) ==
  LET s1 == cleanup([s EXCEPT !.isStarted = FALSE])
      s2 == IF s1.connectionState = "connected" THEN emit(s1, <<"exit", code>>) ELSE s1
      s3 == setState(s2, "disconnected")
  IN IF s3.autoRestart /\ code # "0"
     THEN scheduleRestart(s3)
     ELSE [s3 EXCEPT !.restartAttempt = 0]

\* the 'exit' listener that start() put on its handle
onStartExit(s, code) ==
  LET s1 == cleanup([s EXCEPT !.isStarted = FALSE])
      s2 == IF s1.connectionState = "connected" THEN emit(s1, <<"exit", code>>) ELSE s1
      s3 == setState(s2, "disconnected")
  IN IF s3.autoRestart /\ code # "0" /\ s3.restartTimer = 0
     THEN scheduleRestart(s3)
     ELSE [s3 EXCEPT !.restartAttempt = 0]

\* resolve() of the promise of stop()
resolveStop(s) ==
  IF s.stopPending THEN emit([s EXCEPT !.stopPending = FALSE], <<"stopped">>) ELSE s

\* the 'exit' listener that stop() put on the handle
onStopExit(s) ==
  resolveStop(setState([s EXCEPT !.stopTimeout = FALSE, !.isStarted = FALSE], "disconnected"))

\* the 'exit' event of handle p: its listeners run in the order they were added
onExit(s, p, code) ==
  LET s1 == onStartExit([s EXCEPT !.procStatus[p] = "exited"], code)
  IN IF p \in s1.stopListeners
     THEN onStopExit([s1 EXCEPT !.stopListeners = @ \ {p}])
     ELSE s1

\* emit('media', data): the subscribers, then the once('media') listeners
\* on the controller; every start() that armed a connectionTimeout added
\* one, which clears that timeout (a no-op once the timeout has fired)
\* emitMedia that publishes to the subscribers only on a change of payload
emitMedia_onChange(s, data) ==
  [(IF s.lastMediaData = data THEN s ELSE emit(s, <<"media", data>>))
     EXCEPT !.connTimeout = [i \in Inv |-> FALSE]]

emitMedia(s, data) ==
  [emit(s, <<"media", data>>) EXCEPT !.connTimeout = [i \in Inv |-> FALSE]]

\* the 'line' listener with a plain else for the volume branch: every line
\* that is not a media message is taken for a volume message
onStdoutLine_elseVolume(s, i, line) ==
  IF line[1] = "media"
  THEN LET s1 == emitMedia([s EXCEPT !.lastMediaData = line[2]], line[2])
       IN IF s1.connectionState = "connecting"
          THEN LET s2 == [setState(s1, "connected") EXCEPT !.restartAttempt = 0]
               IN IF ~s2.resolved[i]
                  THEN resolveStart([s2 EXCEPT !.resolved[i] = TRUE], i)
                  ELSE s2
          ELSE s1
  ELSE emit([s EXCEPT !.lastVolumeData = line[2]], <<"volume", line[2]>>)

\* the 'line' listener that publishes the volume event before it stores the
\* payload: the event carries the snapshot of the line before
onStdoutLine_staleVolume(s, i, line) ==
  IF line[1] = "media"
  THEN LET s1 == emitMedia([s EXCEPT !.lastMediaData = line[2]], line[2])
       IN IF s1.connectionState = "connecting"
          THEN LET s2 == [setState(s1, "connected") EXCEPT !.restartAttempt = 0]
               IN IF ~s2.resolved[i]
                  THEN resolveStart([s2 EXCEPT !.resolved[i] = TRUE], i)
                  ELSE s2
          ELSE s1
  ELSE IF line[1] = "volume"
  THEN [emit(s, <<"volume", s.lastVolumeData>>) EXCEPT !.lastVolumeData = line[2]]
  ELSE s

\* the 'line' listener that takes the first message of either kind for the
\* connection
onStdoutLine_volumeConnects(s, i, line) ==
  IF line[1] \in {"media", "volume"}
  THEN LET s0 == IF line[1] = "media"
                 THEN emitMedia([s EXCEPT !.lastMediaData = line[2]], line[2])
                 ELSE emit([s EXCEPT !.lastVolumeData = line[2]], <<"volume", line[2]>>)
       IN IF s0.connectionState = "connecting"
          THEN LET s2 == [setState(s0, "connected") EXCEPT !.restartAttempt = 0]
               IN IF ~s2.resolved[i]
                  THEN resolveStart([s2 EXCEPT !.resolved[i] = TRUE], i)
                  ELSE s2
          ELSE s0
  ELSE s

\* the 'line' listener that takes every media line for a connection
onStdoutLine_connectsAlways(s, i, line) ==
  IF line[1] = "media"
  THEN LET s1 == emitMedia([s EXCEPT !.lastMediaData = line[2]], line[2])
           s2 == [setState(s1, "connected") EXCEPT !.restartAttempt = 0]
       IN IF ~s2.resolved[i]
          THEN resolveStart([s2 EXCEPT !.resolved[i] = TRUE], i)
          ELSE s2
  ELSE IF line[1] = "volume"
  THEN emit([s EXCEPT !.lastVolumeData = line[2]], <<"volume", line[2]>>)
  ELSE s

\* the 'line' listener of the output reader that start() number i created
onStdoutLine(s, i, line) ==
  IF line[1] = "media"
  THEN LET s1 == emitMedia([s EXCEPT !.lastMediaData = line[2]], line[2])
       IN IF s1.connectionState = "connecting"
          THEN LET s2 == [setState(s1, "connected") EXCEPT !.restartAttempt = 0]
               IN IF ~s2.resolved[i]
                  THEN resolveStart([s2 EXCEPT !.resolved[i] = TRUE], i)
                  ELSE s2
          ELSE s1
  ELSE IF line[1] = "volume"
  THEN emit([s EXCEPT !.lastVolumeData = line[2]], <<"volume", line[2]>>)
  ELSE s

\* the 'line' listener of the error reader
\* the 'line' listener of the error reader that treats a line as fatal
onStderrLine_fatal(s, line) ==
  emit(setState(kill(s), "error"), <<"error", line>>)

onStderrLine(s, line) == emit(s, <<"error", line>>)

\* ------------------------------------------------------------------ timers
\* the callback of the restart timer
restartTimerCallback(s) ==
  startCall([s EXCEPT !.restartTimer = 0], "timer")

\* connectionTimeout without setState('error')
connectionTimeout_noErrorState(s, i) ==
  IF ~s.resolved[i]
  THEN LET s1 == cleanup([s EXCEPT !.resolved[i] = TRUE])
       IN rejectStart(kill(s1), i, "timeout")
  ELSE s

\* the callback of connectionTimeout of start() number i
connectionTimeout(s, i) ==
  IF ~s.resolved[i]
  THEN LET s1 == cleanup([s EXCEPT !.resolved[i] = TRUE])
       IN rejectStart(setState(kill(s1), "error"), i, "timeout")
  ELSE s

\* the callback of the grace timer of stop()
stopTimeoutCallback(s) ==
  resolveStop(setState([kill(s) EXCEPT !.isStarted = FALSE], "disconnected"))

\* ---------------------------------------------------------------- commands
\* the messages that the public operations hand to sendCommandWithRetry
DefaultStep == 3
play == <<"play">>
volumeDown(stepPercent) == <<"volume_down", clamp(stepPercent, 1, 100)>>
setVolume(value) == <<"set_volume", clamp(value, 0, 100)>>
\* the calls of public operations; volumeDown() is called without a step,
\* which makes stepPercent the default
Commands ==
  {play, volumeDown(DefaultStep)} \cup {setVolume(v) : v \in VolumeArgs}
MaxRetries == 3
BaseRetryDelay == 100

\* the delay before the retry that follows failed attempt number attempt
retryDelay(attempt) == BaseRetryDelay * Pow2(attempt)

\* sendCommand that tests only that a handle was ever assigned
sendCommandThrows_handleOnly(s) == s.process = 0

\* the guard of sendCommand: it throws 'Controller is not running'
sendCommandThrows(s) == ~isRunning(s)

sendCommandWrite(s, cmd) ==
  emit([s EXCEPT !.stdinWrites[s.process] = @ + 1], <<"write", s.process, cmd>>)

\* commandAttempt without the test 'if the process died, don't retry': a
\* sendCommand that throws is retried after the delay like a failed write
commandAttempt_retryWhenDead(s, cmd) ==
  IF sendCommandThrows(s)
  THEN IF s.cmdAttempt < MaxRetries - 1
       THEN emit([s EXCEPT !.cmdPhase = "delay"], <<"retryDelay", retryDelay(s.cmdAttempt)>>)
       ELSE emit([s EXCEPT !.cmdPhase = "idle", !.cmdAttempt = @ + 1], <<"cmdRejected", "failed after attempts">>)
  ELSE [sendCommandWrite(s, cmd) EXCEPT !.cmdPhase = "writing"]

\* one pass of the loop of sendCommandWithRetry, up to the await of the write
commandAttempt(s, cmd) ==
  IF sendCommandThrows(s)
  THEN emit([s EXCEPT !.cmdPhase = "idle"], <<"cmdRejected", "not running">>)
  ELSE [sendCommandWrite(s, cmd) EXCEPT !.cmdPhase = "writing"]

\* a public playback/volume operation
publicCommand(s, cmd) ==
  commandAttempt([s EXCEPT !.cmdAttempt = 0], cmd)

\* the callback of stdin.write inside sendCommandWithRetry
writeCallback(s, ok) ==
  IF ok
  THEN emit([s EXCEPT !.cmdPhase = "idle"], <<"cmdResolved">>)
  ELSE IF ~isRunning(s)
  THEN emit([s EXCEPT !.cmdPhase = "idle"], <<"cmdRejected", "not running">>)
  ELSE IF s.cmdAttempt < MaxRetries - 1
  THEN emit([s EXCEPT !.cmdPhase = "delay"], <<"retryDelay", retryDelay(s.cmdAttempt)>>)
  ELSE emit([s EXCEPT !.cmdPhase = "idle", !.cmdAttempt = @ + 1], <<"cmdRejected", "failed after attempts">>)

\* the retry delay elapsed: the next pass of the loop
retryDelayCallback(s, cmd) ==
  commandAttempt([s EXCEPT !.cmdAttempt = @ + 1], cmd)

\* -------------------------------------------------------------------- stop
\* stop() that clears the cached snapshots on entry
stop_clearsCache(s) ==
  LET s0 == [s EXCEPT !.lastMediaData = 0, !.lastVolumeData = 0]
  IN IF ~isRunning(s0)
     THEN emit(s0, <<"stopped">>)
     ELSE LET s1 == [s0 EXCEPT !.restartAttempt = 0,
                               !.pendingRestart = @ \ {s0.restartTimer},
                               !.restartTimer = 0]
              s2 == cleanup(s1)
          IN IF s2.process = 0
             THEN emit(setState([s2 EXCEPT !.isStarted = FALSE], "disconnected"), <<"stopped">>)
             ELSE LET s3 == IF sendCommandThrows(s2) THEN s2 ELSE sendCommandWrite(s2, <<"close">>)
                  IN [s3 EXCEPT !.stopPending = TRUE,
                                !.stopTimeout = TRUE,
                                !.stopListeners = @ \cup {s2.process}]

stop(s) ==
  IF ~isRunning(s)
  THEN emit(s, <<"stopped">>)
  ELSE LET s1 == [s EXCEPT !.restartAttempt = 0,
                           !.pendingRestart = @ \ {s.restartTimer},
                           !.restartTimer = 0]
           s2 == cleanup(s1)
       IN IF s2.process = 0
          THEN emit(setState([s2 EXCEPT !.isStarted = FALSE], "disconnected"), <<"stopped">>)
          ELSE LET s3 == IF sendCommandThrows(s2) THEN s2 ELSE sendCommandWrite(s2, <<"close">>)
               IN [s3 EXCEPT !.stopPending = TRUE,
                             !.stopTimeout = TRUE,
                             !.stopListeners = @ \cup {s2.process}]

\* ------------------------------------------------------------------- state
Init ==
  /\ process = 0
  /\ restartTimer = 0
  /\ isStarted = FALSE
  /\ connectionState = "disconnected"
  /\ restartAttempt = 0
  /\ readlineInterfaces = {}
  /\ lastMediaData = 0
  /\ lastVolumeData = 0
  /\ autoRestart \in BOOLEAN
  /\ restartDelay \in RestartDelays
  /\ maxRestartDelay \in MaxRestartDelays
  /\ procStatus = [p \in Inv |-> "none"]
  /\ killed = [p \in Inv |-> FALSE]
  /\ rlOpen = [p \in Inv |-> FALSE]
  /\ stdinWrites = [p \in Inv |-> 0]
  /\ nextInv = 1
  /\ phase = [i \in Inv |-> "none"]
  /\ origin = [i \in Inv |-> "caller"]
  /\ resolved = [i \in Inv |-> FALSE]
  /\ result = [i \in Inv |-> "none"]
  /\ settleCalls = [i \in Inv |-> 0]
  /\ connTimeout = [i \in Inv |-> FALSE]
  /\ pendingRestart = {}
  /\ nextTimer = 1
  /\ stopPending = FALSE
  /\ stopTimeout = FALSE
  /\ stopListeners = {}
  /\ cmdPhase = "idle"
  /\ cmdAttempt = 0
  /\ trace = <<<<"new", "controller">>>>

\* ----------------------------------------------------------------- actions
\* the state a handler starts from: trace holds the input that triggers it
In(input) == [Cur EXCEPT !.trace = <<input>>]

\* the caller invokes start()
Start ==
  /\ nextInv <= MaxStarts
  /\ Commit(startCall(In(<<"call", "start">>), "caller"))

\* the caller invokes stop()
Stop ==
  /\ ~stopPending
  /\ Commit(stop(In(<<"call", "stop">>)))

\* the caller invokes a public playback/volume operation
Command ==
  \E cmd \in Commands :
    /\ cmdPhase = "idle"
    /\ Commit(publicCommand(In(<<"call", "command">>), cmd))

\* an I/O completion: validateExecutablePath() of a start() returns or
\* throws, or a write to the input stream is acknowledged or fails
IoComplete ==
  \E op \in ({"access"} \X {i \in Inv : phase[i] = "validating"})
            \cup ({"write"} \X {x \in {0} : cmdPhase = "writing"}) :
    IF op[1] = "access"
    THEN \E outcome \in Outcomes :
           Commit(startValidated(In(<<"io", "access", op[2], outcome>>), op[2], outcome))
    ELSE \E ok \in BOOLEAN :
           Commit(writeCallback(In(<<"io", "write", ok>>), ok))

\* a timer of the event loop fires
TimerFire ==
  \E t \in ({"restart"} \X pendingRestart)
           \cup ({"connect"} \X {i \in Inv : connTimeout[i]})
           \cup ({"stop"} \X {x \in {0} : stopTimeout})
           \cup ({"retry"} \X {x \in {0} : cmdPhase = "delay"}) :
    LET s == In(<<"timer", t[1], t[2]>>)
    IN IF t[1] = "restart"
       THEN /\ nextInv <= MaxStarts
            /\ Commit(restartTimerCallback([s EXCEPT !.pendingRestart = @ \ {t[2]}]))
       ELSE IF t[1] = "connect"
       THEN Commit(connectionTimeout([s EXCEPT !.connTimeout[t[2]] = FALSE], t[2]))
       ELSE IF t[1] = "stop"
       THEN Commit(stopTimeoutCallback([s EXCEPT !.stopTimeout = FALSE]))
       ELSE \E cmd \in Commands : Commit(retryDelayCallback(s, cmd))

\* the worker of handle p exits: its 'exit' event; Math.random() is drawn
\* only on the restart branch of the exit handler
ProcessExit ==
  \E p \in Inv, code \in ExitCodes :
    \E jitter \in (IF autoRestart /\ code # "0" /\ restartTimer = 0 THEN Jitters ELSE {0}) :
      /\ procStatus[p] = "running"
      /\ Commit(onExit([In(<<"child", "exit", p, code>>) EXCEPT !.random = jitter], p, code))

\* the worker of handle p prints a line on its output stream
StdoutLine ==
  \E p \in Inv, line \in Lines :
    /\ procStatus[p] = "running"
    /\ rlOpen[p]
    /\ Commit(onStdoutLine(In(<<"stdout", p, line>>), p, line))

\* the worker of handle p prints a line on its error stream
StderrLine ==
  \E p \in Inv, line \in ErrLines :
    /\ procStatus[p] = "running"
    /\ rlOpen[p]
    /\ Commit(onStderrLine(In(<<"stderr", p, line>>), line))

Next ==
  \/ Start
  \/ Stop
  \/ Command
  \/ IoComplete
  \/ TimerFire
  \/ ProcessExit
  \/ StdoutLine
  \/ StderrLine

Spec == Init /\ [][Next]_vars

\* the scheduling Node guarantees: an I/O request completes and an armed
\* timer fires; the worker owes nothing (it may stay silent and run on, and
\* no exit handler settles a start() promise)
ConnectTimerFires(i) ==
  TimerFire /\ trace'[1][1] = "timer" /\ trace'[1][2] = "connect" /\ trace'[1][3] = i

RestartTimerFires ==
  TimerFire /\ trace'[1][1] = "timer" /\ trace'[1][2] = "restart"

FairSpec ==
  /\ Spec
  /\ WF_vars(IoComplete)
  /\ WF_vars(RestartTimerFires)
  /\ \A i \in Inv : WF_vars(ConnectTimerFires(i))

\* ------------------------------------------------------------ observations
\* the workers that are live: spawned and not yet exited
Live == {p \in Inv : procStatus[p] = "running"}

\* the handler recorded in t was the caller's call of op
Called(t, op) == t[1][1] = "call" /\ t[1][2] = op

\* the handler recorded in t was the 'exit' event of a worker
Exited(t) == t[1][1] = "child" /\ t[1][2] = "exit"

\* the handler recorded in t published something of this kind
Published(t, kind) == \E k \in 2..Len(t) : t[k][1] = kind

\* ------------------------------------------------------------------ claims
\* C1: in every reachable state at most one worker process launched by the
\* controller is live (spawned and not yet exited).
C1_AtMostOneLiveWorker == Cardinality(Live) <= 1

\* C2: a start() invoked while a worker is live rejects with 'already
\* running', spawns nothing and leaves the connection state, the restart
\* timer and the attempt counter unchanged.
C2_StartWhileLiveRejects ==
  [][(Live # {} /\ Called(trace', "start"))
       => /\ Len(trace') = 2
          /\ trace'[2][1] = "reject"
          /\ trace'[2][3] = "already running"
          /\ UNCHANGED <<connectionState, restartTimer, pendingRestart,
                         restartAttempt, procStatus, nextInv>>]_vars

\* C3: at most one restart timer is pending at any time; an exit with a
\* non-zero code and auto-restart enabled schedules exactly one timer when
\* none is pending, and every other exit schedules none.
C3_AtMostOneRestartTimer ==
  [][/\ Cardinality(pendingRestart') <= 1
     /\ Exited(trace') =>
          IF autoRestart /\ trace'[1][4] # "0" /\ pendingRestart = {}
          THEN Cardinality(pendingRestart') = 1 /\ restartTimer' \in pendingRestart'
          ELSE pendingRestart' = pendingRestart]_vars

\* C3 witness: a worker exited with a non-zero code, auto-restart enabled,
\* while a restart timer was pending, and no restart was scheduled for it
C3_Witness ==
  /\ Exited(trace) /\ trace[1][4] # "0" /\ autoRestart
  /\ Cardinality(pendingRestart) = 1
  /\ ~Published(trace, "error")

\* C4: a stop() invoked while a restart timer is pending cancels the timer:
\* when stop() returns no restart timer is pending.
C4_StopCancelsRestartTimer ==
  [][(Called(trace', "stop") /\ pendingRestart # {} /\ Published(trace', "stopped"))
       => pendingRestart' = {}]_vars

\* C5: the worker exit that follows stop() never schedules a restart timer
\* and never moves the state to reconnecting, even with autoRestart.
C5_ExitAfterStopNoRestart ==
  [][(Called(trace, "stop") /\ Live # {} /\ Exited(trace'))
       => (pendingRestart' = pendingRestart /\ connectionState' # "reconnecting")]_vars

\* C6: once a stop() has completed the connection state is disconnected.
C6_StopEndsDisconnected ==
  Published(trace, "stopped") => connectionState = "disconnected"

\* C7: when the promise of stop() is fulfilled the worker is no longer live.
C7_StopLeavesNoLiveWorker ==
  Published(trace, "stopped") => Live = {}

\* C8: every start() that got past the guard eventually settles: its promise
\* is fulfilled or rejected.
C8_StartSettles ==
  \A i \in Inv : (phase[i] # "none") ~> (result[i] # "none")

\* C9: a start() promise is fulfilled only in state connected, is rejected
\* for a reason other than 'already running' only in state error, and is
\* settled at most once.
C9_SettlementState ==
  /\ \A i \in Inv : settleCalls[i] <= 1
  /\ \A k \in 2..Len(trace) :
       /\ trace[k][1] = "resolve" => connectionState = "connected"
       /\ (trace[k][1] = "reject" /\ trace[k][3] # "already running")
            => connectionState = "error"

\* C9 witness: a start() was rejected by its connect timeout
C9_Witness ==
  \E i \in Inv : /\ result[i] = "rejected"
                 /\ \E k \in 2..Len(trace) :
                      trace[k][1] = "reject" /\ trace[k][2] = i /\ trace[k][3] = "timeout"

\* C10: a public operation or a sendCommand issued while no worker is live
\* rejects and writes nothing to any input stream.
C10_NoWriteWithoutWorker ==
  [][(Live = {} /\ (Called(trace', "command") \/ Called(trace', "stop")))
       => /\ stdinWrites' = stdinWrites
          /\ Called(trace', "command") => Published(trace', "cmdRejected")]_vars

\* C10 witness: an operation was issued after the only worker had exited,
\* with its handle still in this.process, and was rejected
C10_Witness ==
  /\ Called(trace, "command") /\ Published(trace, "cmdRejected")
  /\ process # 0 /\ Live = {}
\* the worker of handle p is active: its start() was fulfilled (it
\* connected) and it has neither exited nor been killed
Active(p) == result[p] = "fulfilled" /\ procStatus[p] = "running" /\ ~killed[p]

\* the number of entries of this kind that the handler recorded in t published
Count(t, kind) == Cardinality({k \in 2..Len(t) : t[k][1] = kind})

\* C11: after start() was fulfilled and while that worker has neither exited
\* nor been killed, a public operation writes its line to the worker's input
\* stream and does not fail with 'not running'.
C11_CommandReachesActiveWorker ==
  [][(Called(trace', "command") /\ process # 0 /\ Active(process))
       => /\ ~Published(trace', "cmdRejected")
          /\ stdinWrites'[process] = stdinWrites[process] + 1]_vars

\* C12: isRunning() is true exactly when a worker launched by start() has
\* connected and has neither exited nor been killed.
C12_IsRunningIffActive ==
  isRunning(Cur) <=> (process # 0 /\ Active(process))

\* C13: a public operation issued while isRunning() is false rejects after
\* exactly one attempt, without a write and without a retry delay.
C13_NotRunningFailsAtOnce ==
  [][(Called(trace', "command") /\ ~isRunning(Cur))
       => /\ Len(trace') = 2
          /\ trace'[2][1] = "cmdRejected"
          /\ cmdPhase' = "idle"
          /\ cmdAttempt' = 0
          /\ stdinWrites' = stdinWrites]_vars

\* C13 witness: an operation issued before any start() was rejected at once
C13_Witness ==
  /\ Called(trace, "command") /\ Count(trace, "cmdRejected") = 1
  /\ process = 0 /\ nextInv = 1 /\ cmdPhase = "idle"

\* C14: with the worker running throughout, a public operation ends in one
\* of two ways: a successful write resolves it, or MaxRetries failed writes
\* reject it with the aggregate error; it is rejected in no other way.
C14_RetryOutcomes ==
  \A k \in 2..Len(trace) :
    (trace[k][1] = "cmdRejected" /\ process # 0 /\ Active(process))
      => (trace[k][2] = "failed after attempts" /\ cmdAttempt = MaxRetries)
\* C15: an 'exit' event is published if and only if the exiting worker had
\* reached the connected state: one exit event with its code when its
\* start() had been fulfilled, none when it never got past connecting.
C15_ExitEventIffWorkerConnected ==
  [][Exited(trace')
       => IF result[trace'[1][3]] = "fulfilled"
          THEN /\ Count(trace', "exit") = 1
               /\ \A k \in 2..Len(trace') :
                    trace'[k][1] = "exit" => trace'[k][2] = trace'[1][4]
          ELSE ~Published(trace', "exit")]_vars

\* C16: the error state is stable: while no start() is called by the caller the
\* state stays error and no restart timer is scheduled.
C16_ErrorStateStable ==
  [][(connectionState = "error" /\ ~Called(trace', "start"))
       => /\ connectionState' = "error"
          /\ pendingRestart' \subseteq pendingRestart]_vars

\* C17: when the start() issued by a restart timer rejects, the state becomes
\* error and an error event is published, and the failed relaunch schedules
\* no further restart timer (the exit of its worker included).
C17_FailedRelaunchIsFinal ==
  [][/\ \A i \in Inv :
          (origin[i] = "timer" /\ result[i] # "rejected" /\ result'[i] = "rejected")
            => (connectionState' = "error" /\ Published(trace', "error"))
     /\ (Exited(trace') /\ origin[trace'[1][3]] = "timer"
           /\ result[trace'[1][3]] = "rejected")
          => pendingRestart' \subseteq pendingRestart]_vars
\* the handler that produced t handled this kind of line from a worker
LineIn(t, kind) == t[1][1] = "stdout" /\ t[1][3][1] = kind

\* the states of the state events in t, in order of publication
RECURSIVE StateEvents(_)
StateEvents(t) ==
  IF Len(t) = 0 THEN <<>>
  ELSE LET rest == StateEvents(SubSeq(t, 1, Len(t) - 1))
       IN IF t[Len(t)][1] = "state" THEN Append(rest, t[Len(t)][2]) ELSE rest

\* C18: a media line, in any connection state, makes its payload the cached
\* media data, publishes exactly one media event carrying that payload, and
\* leaves the volume cache unchanged.
C18_MediaLineCachedAndPublished ==
  [][LineIn(trace', "media")
       => /\ lastMediaData' = trace'[1][3][2]
          /\ Count(trace', "media") = 1
          /\ \A k \in 2..Len(trace') :
               trace'[k][1] = "media" => trace'[k][2] = trace'[1][3][2]
          /\ lastVolumeData' = lastVolumeData]_vars

\* C18 witness: a media line with a record payload was handled outside the
\* connecting state: cached and published once, nothing else published
C18_Witness ==
  /\ LineIn(trace, "media") /\ trace[1][3][2] = 1 /\ lastMediaData = 1
  /\ Count(trace, "media") = 1 /\ Len(trace) = 2
  /\ connectionState \in {"connected", "error", "disconnected"}

\* C19: a malformed line or a message of another kind changes nothing and
\* publishes nothing; the reader stays open for the lines that follow.
C19_OtherLinesIgnored ==
  [][(LineIn(trace', "malformed") \/ LineIn(trace', "ping"))
       => /\ Len(trace') = 1
          /\ UNCHANGED <<process, restartTimer, isStarted, connectionState,
                         restartAttempt, readlineInterfaces, lastMediaData,
                         lastVolumeData, autoRestart, restartDelay,
                         maxRestartDelay, procStatus, killed,
                         rlOpen, stdinWrites, nextInv, phase, origin, resolved,
                         result, settleCalls, connTimeout, pendingRestart,
                         nextTimer, stopPending, stopTimeout, stopListeners,
                         cmdPhase, cmdAttempt>>]_vars

\* C19 witness: a malformed line was handled while both caches were filled
\* and the connect timeout of its worker was armed
C19_Witness ==
  /\ LineIn(trace, "malformed")
  /\ lastMediaData = 1 /\ lastVolumeData = 1
  /\ connTimeout[trace[1][2]] /\ rlOpen[trace[1][2]]

\* C20: no two consecutive state events carry the same state, and getState()
\* is the state of the last state event published (disconnected before the
\* first): in every step the state before it followed by the state events of
\* the step never repeats a state twice in a row and ends in the new state.
C20_StateEventsFollowState ==
  [][LET seq == <<connectionState>> \o StateEvents(Tail(trace'))
     IN /\ \A k \in 1..(Len(seq) - 1) : seq[k] # seq[k + 1]
        /\ connectionState' = seq[Len(seq)]]_vars

\* C20 witness: an exit published two state events in a row
C20_Witness ==
  /\ Exited(trace)
  /\ StateEvents(Tail(trace)) = <<"disconnected", "reconnecting">>
\* the handler that produced t' is the exit of a worker with a non-zero or
\* null code, taken in state connected with autoRestart and no timer pending
ExitToRestart ==
  /\ Exited(trace') /\ trace'[1][4] # "0"
  /\ connectionState = "connected" /\ autoRestart /\ restartTimer = 0

\* C21 as stated: such an exit publishes the single state event reconnecting
\* (connected directly to reconnecting), increments the attempt counter by
\* one and schedules one restart timer.
C21_ConnectedDirectlyToReconnecting ==
  [][ExitToRestart
       => /\ StateEvents(Tail(trace')) = <<"reconnecting">>
          /\ restartAttempt' = restartAttempt + 1
          /\ Cardinality(pendingRestart') = Cardinality(pendingRestart) + 1]_vars

\* C21 amended: such an exit publishes the state events disconnected and
\* reconnecting, in this order and no other, increments the attempt counter
\* by one and schedules one restart timer.
C21_ConnectedViaDisconnectedToReconnecting ==
  [][ExitToRestart
       => /\ StateEvents(Tail(trace')) = <<"disconnected", "reconnecting">>
          /\ connectionState' = "reconnecting"
          /\ restartAttempt' = restartAttempt + 1
          /\ Cardinality(pendingRestart') = Cardinality(pendingRestart) + 1
          /\ restartTimer' \in pendingRestart' \ pendingRestart]_vars

\* C21 witness: a connected worker exited abnormally; its exit event, the two
\* state events and the first restart timer followed
C21_Witness ==
  /\ Exited(trace) /\ trace[1][4] # "0" /\ Published(trace, "exit")
  /\ connectionState = "reconnecting" /\ restartAttempt = 1
  /\ restartTimer # 0 /\ pendingRestart = {restartTimer}

\* C22: an exit with code 0, or with any code while autoRestart is false,
\* leaves state disconnected and the attempt counter 0, schedules no restart
\* timer and leaves none pending that would relaunch without a start().
C22_CleanExitEndsSupervision ==
  [][(Exited(trace') /\ (trace'[1][4] = "0" \/ ~autoRestart))
       => /\ connectionState' = "disconnected"
          /\ restartAttempt' = 0
          /\ pendingRestart' = {}]_vars
\* the delay of the restart timer that the handler that produced t scheduled
Delay(t) == (CHOOSE k \in 2..Len(t) : t[k][1] = "setTimeout")

\* C23: every scheduled restart delay d lies between min(base * 2^n, max) and
\* that plus the jitter ceiling, n being the attempt counter before the
\* increment made for this restart; after a connected state n is 0.
C23_RestartDelayBounds ==
  [][Published(trace', "setTimeout")
       => LET d == trace'[Delay(trace')][2]
              backoff == Min(restartDelay * 2 ^ restartAttempt, maxRestartDelay)
          IN /\ backoff <= d
             /\ d <= backoff + JitterCeiling
             /\ restartAttempt' = restartAttempt + 1
             /\ connectionState = "connected" => restartAttempt = 0]_vars

\* C23 witness: a restart was scheduled at attempt 1, where the cap applies,
\* with the largest jitter
C23_Witness ==
  /\ Published(trace, "setTimeout") /\ restartAttempt = 2
  /\ restartDelay * 2 > maxRestartDelay
  /\ trace[Delay(trace)][2] = maxRestartDelay + JitterCeiling - 1
\* C24: in a session that reached connected, a start() issued right after a
\* stop() completed finds the state disconnected (the state event stop()
\* published) and publishes connecting as the next state event, and no
\* restart timer of the prior session is pending.
C24_StopThenStartSequence ==
  [][(Published(trace, "stopped") /\ Called(trace', "start")
        /\ \E p \in Inv : result[p] = "fulfilled")
       => /\ connectionState = "disconnected"
          /\ StateEvents(Tail(trace')) = <<"connecting">>
          /\ pendingRestart' = {}]_vars
\* C25: worker exit, restart scheduling, restart-timer firing, relaunch,
\* connect timeout and state transitions leave both cached snapshots
\* unchanged: the media cache changes only in the handler of a media line and
\* the volume cache only in the handler of a volume line (stop() apart).
C25_CachePersistsAcrossRestarts ==
  [][~Called(trace', "stop")
       => /\ ~LineIn(trace', "media") => lastMediaData' = lastMediaData
          /\ ~LineIn(trace', "volume") => lastVolumeData' = lastVolumeData]_vars

\* C25 witness: a restart timer fired and relaunched with both caches filled
C25_Witness ==
  /\ trace[1][1] = "timer" /\ trace[1][2] = "restart"
  /\ lastMediaData = 1 /\ lastVolumeData = 1
  /\ connectionState = "connecting"

\* C26 as stated: after a stop() completed in a session that had connected,
\* both cached snapshots are null.
C26_StopClearsCache ==
  (Published(trace, "stopped") /\ \E p \in Inv : result[p] = "fulfilled")
    => (lastMediaData = 0 /\ lastVolumeData = 0)

\* C26 amended: stop() leaves both cached snapshots as they were.
C26_StopKeepsCache ==
  [][Called(trace', "stop")
       => (lastMediaData' = lastMediaData /\ lastVolumeData' = lastVolumeData)]_vars

\* C26 witness: stop() completed with a connected worker and both caches
\* still filled
C26_Witness ==
  /\ Called(trace, "stop") /\ Published(trace, "stopped")
  /\ \E p \in Inv : Active(p)
  /\ lastMediaData = 1 /\ lastVolumeData = 1
\* C27: a public operation issued while the worker is active transmits its
\* command, and the numeric parameter transmitted is clamped: value within
\* 0..100 for set_volume, stepPercent within 1..100 for volume_up and
\* volume_down.
C27_TransmittedVolumeClamped ==
  [][(Called(trace', "command") /\ process # 0 /\ Active(process))
       => \E k \in 2..Len(trace') :
            /\ trace'[k][1] = "write"
            /\ trace'[k][3][1] = "set_volume"
                 => (0 <= trace'[k][3][2] /\ trace'[k][3][2] <= 100)
            /\ trace'[k][3][1] \in {"volume_up", "volume_down"}
                 => (1 <= trace'[k][3][2] /\ trace'[k][3][2] <= 100)]_vars
\* every variable but the record of the last handler
state ==
  <<process, restartTimer, isStarted, connectionState, restartAttempt,
    readlineInterfaces, lastMediaData, lastVolumeData, autoRestart,
    restartDelay, maxRestartDelay, procStatus, killed, rlOpen, stdinWrites,
    nextInv, phase, origin, resolved, result, settleCalls, connTimeout,
    pendingRestart, nextTimer, stopPending, stopTimeout, stopListeners,
    cmdPhase, cmdAttempt>>

\* C28: media and volume events are published in the order of their lines:
\* the handler of an accepted line publishes the one event of that line,
\* carrying its payload, and stores the payload in the cache of its kind
\* before the next line is handled; no other handler publishes such an event.
C28_EventsInLineOrder ==
  [][/\ \A kind \in {"media", "volume"} :
          /\ LineIn(trace', kind)
               => /\ Count(trace', kind) = 1
                  /\ \A k \in 2..Len(trace') :
                       trace'[k][1] = kind => trace'[k][2] = trace'[1][3][2]
          /\ Published(trace', kind) => LineIn(trace', kind)
     /\ LineIn(trace', "media") => lastMediaData' = trace'[1][3][2]
     /\ LineIn(trace', "volume") => lastVolumeData' = trace'[1][3][2]]_vars

\* C28 witness: a volume line was handled after a media line: the caches
\* hold the media record of the earlier line and the volume record of this one
C28_Witness ==
  /\ LineIn(trace, "volume") /\ trace[1][3][2] = 1
  /\ Count(trace, "volume") = 1
  /\ lastMediaData = 1 /\ lastVolumeData = 1
  /\ \E p \in Inv : result[p] = "fulfilled"

\* C29: a line of the worker's error stream publishes exactly one error
\* event carrying that line and changes nothing else; the worker is not
\* killed.
C29_StderrLineOnlyPublishes ==
  [][trace'[1][1] = "stderr"
       => /\ Len(trace') = 2
          /\ trace'[2][1] = "error" /\ trace'[2][2] = trace'[1][3]
          /\ UNCHANGED state]_vars

\* C29 witness: an error line was published while connected and its worker
\* runs on, not killed
C29_Witness ==
  /\ trace[1][1] = "stderr" /\ trace[1][3] = "fatal"
  /\ Published(trace, "error")
  /\ connectionState = "connected"
  /\ procStatus[trace[1][2]] = "running" /\ ~killed[trace[1][2]]

\* C30: the state becomes connected only in the handler of a media line
\* taken in state connecting; that handler sets the attempt counter to 0 and
\* the start() of the process that sent the line is fulfilled. A media line in
\* any other state and any volume line leave state and counter unchanged.
C30_ConnectedOnlyByMediaWhileConnecting ==
  [][/\ (connectionState # "connected" /\ connectionState' = "connected")
          => /\ LineIn(trace', "media")
             /\ connectionState = "connecting"
             /\ restartAttempt' = 0
             /\ result'[trace'[1][2]] = "fulfilled"
     /\ (LineIn(trace', "media") /\ connectionState = "connecting")
          => connectionState' = "connected"
     /\ ((LineIn(trace', "media") /\ connectionState # "connecting")
           \/ LineIn(trace', "volume"))
          => UNCHANGED <<connectionState, restartAttempt>>]_vars

\* C30 witness: a media line taken in state reconnecting with a restart
\* counted left state and counter as they were
C30_Witness ==
  /\ LineIn(trace, "media")
  /\ connectionState = "reconnecting" /\ restartAttempt = 1
\* the handler that produced t is the callback of this kind of timer
Fired(t, kind) == t[1][1] = "timer" /\ t[1][2] = kind

\* C31: when the connect timeout of a launch fires before any media message
\* was processed, the process launched by that attempt is killed, the state
\* moves to error and that start() rejects with the timeout error; a media
\* message processed within the window disarms the timeout of its launch.
C31_ConnectTimeoutAbortsItsLaunch ==
  [][/\ (Fired(trace', "connect") /\ procStatus[trace'[1][3]] = "running"
           /\ ~resolved[trace'[1][3]])
          => /\ killed'[trace'[1][3]]
             /\ connectionState' = "error"
             /\ result'[trace'[1][3]] = "rejected"
             /\ \E k \in 2..Len(trace') :
                  /\ trace'[k][1] = "reject" /\ trace'[k][2] = trace'[1][3]
                  /\ trace'[k][3] = "timeout"
     /\ LineIn(trace', "media") => ~connTimeout'[trace'[1][2]]]_vars
\* C32: the attempt counter counts the restarts scheduled since the most
\* recent of construction, a transition into connected and an intentional
\* stop(): a step into connected and a completed stop() set it to 0, every
\* other step adds the number of restarts it scheduled (one or none).
C32_CounterCountsScheduledRestarts ==
  [][IF connectionState # "connected" /\ connectionState' = "connected"
     THEN restartAttempt' = 0
     ELSE IF Called(trace', "stop") /\ Published(trace', "stopped")
     THEN restartAttempt' = 0
     ELSE restartAttempt' = restartAttempt + Count(trace', "setTimeout")]_vars
\* C34: a volume line makes its payload the cached volume data and publishes
\* exactly one volume event carrying it, and nothing more: the media cache,
\* the connection state, the attempt counter, the connect timeouts and the
\* settlement of every start() are unchanged.
C34_VolumeLineOnlyUpdatesVolume ==
  [][LineIn(trace', "volume")
       => /\ lastVolumeData' = trace'[1][3][2]
          /\ Len(trace') = 2
          /\ trace'[2][1] = "volume" /\ trace'[2][2] = trace'[1][3][2]
          /\ UNCHANGED <<lastMediaData, connectionState, restartAttempt,
                         connTimeout, resolved, result, pendingRestart>>]_vars

\* C34 witness: a volume line arrived first on a fresh launch: state still
\* connecting, the connect timeout of the launch still armed, start() pending
C34_Witness ==
  /\ LineIn(trace, "volume") /\ lastVolumeData = 1
  /\ connectionState = "connecting"
  /\ connTimeout[trace[1][2]] /\ result[trace[1][2]] = "none"
\* C36: whenever the connection state is connected, the attempt counter is 0
\* and no restart timer is pending.
C36_ConnectedMeansNoRestartPending ==
  connectionState = "connected" => (restartAttempt = 0 /\ pendingRestart = {})

\* C37: the connection state is reconnecting if and only if a restart timer
\* is pending.
C37_ReconnectingIffTimerPending ==
  (connectionState = "reconnecting") <=> (pendingRestart # {})

\* C38: the connect timeout and the exit cleanup of one launch affect only
\* that launch: the timeout of start() number i and the exit of worker i
\* neither kill another launch's worker nor close its readers, and the
\* timeout rejects no start() but its own.
C38_TimeoutAndCleanupAreLocal ==
  [][(Fired(trace', "connect") \/ Exited(trace'))
       => \A j \in Inv \ {trace'[1][3]} :
            /\ killed'[j] = killed[j]
            /\ rlOpen'[j] = rlOpen[j]
            /\ result'[j] = result[j]]_vars
\* the handler that produced t is the completion of validateExecutablePath()
\* of start() number t[1][3] with this outcome
Validated(t, outcome) ==
  t[1][1] = "io" /\ t[1][2] = "access" /\ t[1][4] = outcome

\* C39: start() moves the state to connecting before the executable is
\* validated; when the validation fails the state becomes error and start()
\* rejects with the resolver's error, no process is spawned, no connect
\* timeout is armed and no restart timer is scheduled.
C39_ValidationFailureIsClean ==
  [][/\ (Called(trace', "start") /\ nextInv' # nextInv)
          => /\ connectionState' = "connecting"
             /\ phase'[nextInv] = "validating"
             /\ ~Published(trace', "spawn")
     /\ Validated(trace', "notfound")
          => /\ connectionState' = "error"
             /\ result'[trace'[1][3]] = "rejected"
             /\ \E k \in 2..Len(trace') :
                  /\ trace'[k][1] = "reject" /\ trace'[k][2] = trace'[1][3]
                  /\ trace'[k][3] = "not found"
             /\ ~Published(trace', "spawn")
             /\ UNCHANGED <<process, procStatus, connTimeout, pendingRestart,
                            restartTimer, readlineInterfaces>>]_vars

\* C39 witness: the validation of a caller's first start() failed: state
\* error, the promise rejected, no process
C39_Witness ==
  /\ Validated(trace, "notfound") /\ origin[trace[1][3]] = "caller"
  /\ connectionState = "error" /\ result[trace[1][3]] = "rejected"
  /\ process = 0 /\ phase[trace[1][3]] = "done"
=============================================================================
